---- MODULE Spec2Model ----
(***************************************************************************)
(* Model of crates/test-case-macros/src/lib.rs: the attribute macros       *)
(* test_case and test_matrix, the aggregation of the further test-case and *)
(* test-matrix attributes of the annotated function                        *)
(* (expand_additional_test_case_macros), and the assembly of the generated *)
(* module (render_test_cases).                                             *)
(*                                                                         *)
(* An attribute is a record [path, tokens, span].  Indices are 1-based     *)
(* here and 0-based in the source.  Option<T> is a sequence of length 0    *)
(* or 1.                                                                   *)
(***************************************************************************)
EXTENDS Integers, Sequences, FiniteSets

VARIABLES
    macro,      \* the attribute macro the compiler invokes: "test_case" or "test_matrix"
    args,       \* its `args` token stream (the content of the primary attribute)
    input,      \* attrs of the ItemFn parsed from `input`
    item,       \* the local `item` (ident, attrs) as mutated by the macro
    test_cases, \* the local `test_cases` vector of (TestCase, Span2)
    output,     \* the TokenStream the macro returns
    pc,         \* "call": the macro is about to run; "done": it has returned
    run,        \* "first", or how the source was edited before this expansion
    prev        \* input, item, test_cases and output of the first expansion

vars == <<macro, args, input, item, test_cases, output, pc, run, prev>>

-----------------------------------------------------------------------------
(* Bounds of the explored inputs *)

MaxAttrs == 3   \* attributes on the function besides the primary one
MaxSlots == 2   \* parameter slots of a matrix
MaxCand  == 3   \* candidates in one slot

-----------------------------------------------------------------------------
(* Data *)

\* Span2::call_site(): the position of the macro invocation, i.e. of the
\* primary attribute.  The attributes of item.attrs have spans 1, 2, ...
CallSite == 0

None == <<>>
Some(x) == <<x>>

Malformed == [form |-> "malformed"]
Opaque    == [form |-> "opaque"]
CaseTokens(c)   == [form |-> "case", case |-> c]
MatrixTokens(m) == [form |-> "matrix", slots |-> m]

\* #[test_case(2, 3 => 5 ; "sum")]
CaseA == [args |-> <<2, 3>>, expected |-> Some(5), description |-> Some("sum")]
\* #[test_case(1, 1)]
CaseB == [args |-> <<1, 1>>, expected |-> None, description |-> None]

\* The candidates of one slot: [1], [1, 2], ..., and [1, 1], a slot that
\* lists the same candidate twice.
Slots == {[j \in 1..k |-> j] : k \in 1..MaxCand} \cup {<<1, 1>>}

Matrices == UNION {[1..n -> Slots] : n \in 1..MaxSlots}

\* #[test_matrix([1, 2], [1])]
MatrixA == <<<<1, 2>>, <<1>>>>

Ident == "add"

-----------------------------------------------------------------------------
(* test_case_core, used through its interface *)

\* <TestCase as Parse>: the tokens are a test case or a syntax error.
ParseTestCase(tokens) ==
    IF tokens.form = "case"
    THEN [ok |-> TRUE, value |-> tokens.case]
    ELSE [ok |-> FALSE, value |-> CaseB]

\* <TestMatrix as Parse>: the tokens are a matrix or a syntax error.
ParseTestMatrix(tokens) ==
    IF tokens.form = "matrix"
    THEN [ok |-> TRUE, value |-> tokens.slots]
    ELSE [ok |-> FALSE, value |-> <<>>]

RECURSIVE Concat(_)
Concat(ss) == IF ss = <<>> THEN <<>> ELSE Head(ss) \o Concat(Tail(ss))

\* TestMatrix::cases: the cartesian product of the slots, the first slot in
\* the outer loop and the last in the inner loop, one TestCase per
\* combination, without expected result or description.
RECURSIVE Product(_)
Product(slots) ==
    IF slots = <<>> THEN << <<>> >>
    ELSE LET rest == Product(Tail(slots))
             first == Head(slots)
         IN Concat([i \in 1..Len(first) |->
                      [j \in 1..Len(rest) |-> <<first[i]>> \o rest[j]]])

cases(matrix) ==
    LET p == Product(matrix)
    IN [k \in 1..Len(p) |-> [args |-> p[k], expected |-> None, description |-> None]]

\* The name TestCase::render gives the function: a function of what render
\* is given, here taken to tell any two different (case, span) apart.
test_case_name(test_case, span) == <<test_case, span>>

\* TestCase::render(item, span): the test function of one case, made of a
\* copy of the template and carrying the template's attributes.
render(test_case, item_, span) ==
    [name |-> test_case_name(test_case, span),
     case |-> test_case,
     span |-> span,
     attrs |-> item_.attrs]

-----------------------------------------------------------------------------
(* lib.rs *)

\* The table without the bare alias `case`.
legal_test_case_names_without_case ==
    {"test_case", "test_case::test_case", "test_case::case"}

legal_test_case_names ==
    {"test_case", "test_case::test_case", "test_case::case", "case"}

legal_test_matrix_names ==
    {"test_matrix", "test_case::test_matrix"}

\* The new elements put in front of the old ones.
extend_front(v, w) == w \o v

\* Vec::extend
extend(v, w) == v \o w

\* The cases collected in reverse order.
expand_test_matrix_reversed(matrix, span) ==
    LET cs == cases(matrix)
    IN [k \in 1..Len(cs) |-> <<cs[Len(cs) + 1 - k], span>>]

\* The cases tagged with the call site instead of the span passed in.
expand_test_matrix_call_site(matrix, span) ==
    LET cs == cases(matrix)
    IN [k \in 1..Len(cs) |-> <<cs[k], CallSite>>]

\* expand_test_matrix(matrix, span)
expand_test_matrix(matrix, span) ==
    LET cs == cases(matrix)
    IN [k \in 1..Len(cs) |-> <<cs[k], span>>]

NoError == [set |-> FALSE, span |-> CallSite, message |-> ""]
Error(span, message) == [set |-> TRUE, span |-> span, message |-> message]

\* The loop body that passes over an attribute it cannot parse instead of
\* returning the error.
scan_attr_skip_malformed(st, idx, attr) ==
    IF attr.path \in legal_test_case_names THEN
        LET r == ParseTestCase(attr.tokens) IN
        IF ~r.ok
        THEN st
        ELSE [st EXCEPT !.additional_cases = Append(@, <<r.value, attr.span>>),
                        !.attrs_to_remove = Append(@, idx)]
    ELSE IF attr.path \in legal_test_matrix_names THEN
        LET r == ParseTestMatrix(attr.tokens) IN
        IF ~r.ok
        THEN st
        ELSE [st EXCEPT !.additional_cases =
                            extend(@, expand_test_matrix(r.value, attr.span)),
                        !.attrs_to_remove = Append(@, idx)]
    ELSE st

\* The body of the loop over item.attrs.iter().enumerate(): st holds
\* additional_cases, attrs_to_remove and the error returned, if any.
scan_attr(st, idx, attr) ==
    IF attr.path \in legal_test_case_names THEN
        LET r == ParseTestCase(attr.tokens) IN
        IF ~r.ok
        THEN [st EXCEPT !.err = Error(attr.span, "cannot parse test_case arguments")]
        ELSE [st EXCEPT !.additional_cases = Append(@, <<r.value, attr.span>>),
                        !.attrs_to_remove = Append(@, idx)]
    ELSE IF attr.path \in legal_test_matrix_names THEN
        LET r == ParseTestMatrix(attr.tokens) IN
        IF ~r.ok
        THEN [st EXCEPT !.err = Error(attr.span, "cannot parse test_matrix arguments")]
        ELSE [st EXCEPT !.additional_cases =
                            extend(@, expand_test_matrix(r.value, attr.span)),
                        !.attrs_to_remove = Append(@, idx)]
    ELSE st

\* for (idx, attr) in item.attrs.iter().enumerate() { ... }, left at the
\* first `return Err(..)`.
RECURSIVE scan_attrs(_, _, _)
scan_attrs(attrs, idx, st) ==
    IF idx > Len(attrs) \/ st.err.set THEN st
    ELSE scan_attrs(attrs, idx + 1, scan_attr(st, idx, attrs[idx]))

\* The last element dropped without taking the place of element i.
swap_remove_last(v, i) == SubSeq(v, 1, Len(v) - 1)

\* Vec::swap_remove(i): the last element takes the place of element i.
swap_remove(v, i) ==
    LET n == Len(v)
    IN IF i = n THEN SubSeq(v, 1, n - 1)
       ELSE [SubSeq(v, 1, n - 1) EXCEPT ![i] = v[n]]

\* The removal loop left out.
remove_attrs_none(attrs, attrs_to_remove) == attrs

\* for i in attrs_to_remove.into_iter().rev() { item.attrs.swap_remove(i); }
RECURSIVE remove_attrs(_, _)
remove_attrs(attrs, attrs_to_remove) ==
    IF attrs_to_remove = <<>> THEN attrs
    ELSE LET n == Len(attrs_to_remove)
         IN remove_attrs(swap_remove(attrs, attrs_to_remove[n]),
                         SubSeq(attrs_to_remove, 1, n - 1))

\* expand_additional_test_case_macros(&mut item): the Result and item.attrs
\* afterwards.  On Err the function has returned before removing anything.
expand_additional_test_case_macros(attrs) ==
    LET st == scan_attrs(attrs, 1,
                  [additional_cases |-> <<>>, attrs_to_remove |-> <<>>,
                   err |-> NoError])
    IN IF st.err.set
       THEN [ok |-> FALSE, err |-> st.err, cases |-> <<>>, attrs |-> attrs]
       ELSE [ok |-> TRUE, err |-> NoError, cases |-> st.additional_cases,
             attrs |-> remove_attrs(attrs, st.attrs_to_remove)]

\* A closure that keeps every attribute.
is_allow_any(attr) == TRUE

\* The closure of item.attrs.retain(..): the path is the one identifier `allow`.
is_allow(attr) == attr.path = "allow"

RECURSIVE retain(_)
retain(attrs) ==
    IF attrs = <<>> THEN <<>>
    ELSE IF is_allow(Head(attrs)) THEN <<Head(attrs)>> \o retain(Tail(attrs))
    ELSE retain(Tail(attrs))

\* The #[allow(unused_attributes)] that quote! writes in front of #item.
AllowUnusedAttributes ==
    [path |-> "allow", tokens |-> Opaque, span |-> CallSite]

NoOutput == [kind |-> "none"]

\* err.into_compile_error().into(): a compile_error! at the error's span and
\* nothing else.
into_compile_error(err) ==
    [kind |-> "compile_error", span |-> err.span, message |-> err.message]

\* render_test_cases(&test_cases, item)
render_test_cases(cases_, item_) ==
    [kind |-> "module",
     item_prefix |-> <<AllowUnusedAttributes>>,
     item |-> [item_ EXCEPT !.attrs = retain(item_.attrs)],
     mod_name |-> item_.ident,
     rendered_test_cases |->
         [k \in 1..Len(cases_) |-> render(cases_[k][1], item_, cases_[k][2])]]

\* What both macros do once `args` is parsed into the primary cases.
Expand(primary) ==
    LET r == expand_additional_test_case_macros(input)
    IN IF r.ok
       THEN /\ item' = [ident |-> Ident, attrs |-> r.attrs]
            /\ test_cases' = extend(primary, r.cases)
            /\ output' = render_test_cases(test_cases', item')
       ELSE /\ item' = [ident |-> Ident, attrs |-> r.attrs]
            /\ test_cases' = primary
            /\ output' = into_compile_error(r.err)

\* parse_macro_input!(args as T) failed: the macro returns the parser's
\* compile error, which lies in the primary attribute.
ArgsError ==
    /\ item' = item
    /\ test_cases' = <<>>
    /\ output' = into_compile_error(Error(CallSite, "cannot parse args"))

\* #[proc_macro_attribute] pub fn test_case(args, input)
test_case ==
    /\ pc = "call"
    /\ macro = "test_case"
    /\ LET r == ParseTestCase(args)
       IN IF r.ok THEN Expand(<< <<r.value, CallSite>> >>) ELSE ArgsError
    /\ pc' = "done"
    /\ UNCHANGED <<macro, args, input, run, prev>>

\* #[proc_macro_attribute] pub fn test_matrix(args, input)
test_matrix ==
    /\ pc = "call"
    /\ macro = "test_matrix"
    /\ LET r == ParseTestMatrix(args)
       IN IF r.ok THEN Expand(expand_test_matrix(r.value, CallSite)) ELSE ArgsError
    /\ pc' = "done"
    /\ UNCHANGED <<macro, args, input, run, prev>>

-----------------------------------------------------------------------------
(* The functions the macros are applied to *)

\* The spellings the specification lists for the two forms.
CaseSpellings ==
    {"test_case", "test_case::test_case", "test_case::case", "case"}

MatrixSpellings ==
    {"test_matrix", "test_case::test_matrix"}

IsTestCase(attr)   == attr.path \in CaseSpellings
IsTestMatrix(attr) == attr.path \in MatrixSpellings
Recognized(attr)   == IsTestCase(attr) \/ IsTestMatrix(attr)

\* An attribute as written, before it has a position: a test case under the
\* primary spelling or an alias, a matrix, each well-formed or malformed,
\* two attributes of other macros, and a path that is in neither table
\* although its content is a matrix.
Written ==
    [path : {"test_case", "case"}, tokens : {CaseTokens(CaseA), Malformed}]
    \cup [path : {"test_matrix"}, tokens : {MatrixTokens(MatrixA), Malformed}]
    \cup [path : {"allow", "inline"}, tokens : {Opaque}]
    \cup [path : {"test_case::matrix"}, tokens : {MatrixTokens(MatrixA)}]

Positioned(ws) ==
    [i \in 1..Len(ws) |-> [path |-> ws[i].path, tokens |-> ws[i].tokens, span |-> i]]

AttrLists == {Positioned(ws) : ws \in UNION {[1..n -> Written] : n \in 0..MaxAttrs}}

\* Functions with any attribute list under one of four primary attributes.
ListInputs ==
    [macro : {"test_case"}, args : {CaseTokens(CaseB), Malformed}, attrs : AttrLists]
    \cup [macro : {"test_matrix"}, args : {MatrixTokens(MatrixA), Malformed},
          attrs : AttrLists]

\* Functions with one matrix, as the primary attribute or as a further one.
MatrixInputs ==
    [macro : {"test_matrix"}, args : {MatrixTokens(m) : m \in Matrices},
     attrs : {<<>>}]
    \cup [macro : {"test_case"}, args : {CaseTokens(CaseB)},
          attrs : {Positioned(<<[path |-> p, tokens |-> MatrixTokens(m)]>>) :
                     p \in MatrixSpellings, m \in Matrices}]

Inputs == ListInputs \cup MatrixInputs

Init ==
    /\ \E i \in Inputs :
          /\ macro = i.macro
          /\ args = i.args
          /\ input = i.attrs
          /\ item = [ident |-> Ident, attrs |-> i.attrs]
    /\ test_cases = <<>>
    /\ output = NoOutput
    /\ pc = "call"
    /\ run = "first"
    /\ prev = [input |-> <<>>, item |-> [ident |-> Ident, attrs |-> <<>>],
               test_cases |-> <<>>, output |-> NoOutput]

RECURSIVE SelectSeq2(_, _)
SelectSeq2(s, keep) ==
    IF s = <<>> THEN <<>>
    ELSE IF keep[1] THEN <<Head(s)>> \o SelectSeq2(Tail(s), Tail(keep))
    ELSE SelectSeq2(Tail(s), Tail(keep))

\* The attributes of s that satisfy Recognized / do not, in the order of s.
RecognizedOf(s)   == SelectSeq2(s, [i \in 1..Len(s) |-> Recognized(s[i])])
UnrecognizedOf(s) == SelectSeq2(s, [i \in 1..Len(s) |-> ~Recognized(s[i])])

Snapshot ==
    [input |-> input, item |-> item, test_cases |-> test_cases, output |-> output]

\* The attributes of the emitted template function read back as source:
\* the ones kept from the original keep their positions, the added
\* #[allow(unused_attributes)] has a position of its own, after the n
\* positions of the original.
EmittedAttrs(out, n) ==
    [k \in 1..Len(out.item_prefix) |-> [out.item_prefix[k] EXCEPT !.span = n + k]]
    \o out.item.attrs

\* The user puts the same test-case and test-matrix attributes back on the
\* template function the first expansion emitted, and compiles again.
Reannotate ==
    /\ pc = "done"
    /\ run = "first"
    /\ output.kind = "module"
    /\ prev' = Snapshot
    /\ run' = "reannotated"
    /\ input' = RecognizedOf(input) \o EmittedAttrs(output, Len(input))
    /\ item' = [ident |-> output.item.ident, attrs |-> input']
    /\ test_cases' = <<>>
    /\ output' = NoOutput
    /\ pc' = "call"
    /\ UNCHANGED <<macro, args>>

\* The user respells one test-case or test-matrix attribute of the original
\* function with another path of the same table, and compiles again.
Respell ==
    /\ pc = "done"
    /\ run = "first"
    /\ \E i \in 1..Len(input) :
          \E p \in CaseSpellings \cup MatrixSpellings :
             /\ Recognized(input[i])
             /\ p # input[i].path
             /\ IsTestCase(input[i]) <=> p \in CaseSpellings
             /\ input' = [input EXCEPT ![i].path = p]
    /\ prev' = Snapshot
    /\ run' = "respelled"
    /\ item' = [ident |-> Ident, attrs |-> input']
    /\ test_cases' = <<>>
    /\ output' = NoOutput
    /\ pc' = "call"
    /\ UNCHANGED <<macro, args>>

Next == test_case \/ test_matrix \/ Reannotate \/ Respell

Spec == Init /\ [][Next]_vars

-----------------------------------------------------------------------------
(* Properties *)

Done    == pc = "done"
Emitted == Done /\ output.kind = "module"

PrimaryMalformed ==
    IF macro = "test_case" THEN args.form # "case" ELSE args.form # "matrix"

AttrMalformed(a) ==
    \/ IsTestCase(a) /\ a.tokens.form # "case"
    \/ IsTestMatrix(a) /\ a.tokens.form # "matrix"

Elems(s) == {s[i] : i \in 1..Len(s)}

\* The cases one well-formed directive stands for, in order.
DirectiveCases(a) ==
    IF IsTestCase(a) THEN <<a.tokens.case>> ELSE cases(a.tokens.slots)

PrimaryCases ==
    IF macro = "test_case" THEN <<args.case>> ELSE cases(args.slots)

Tagged(cs, span) == [k \in 1..Len(cs) |-> <<cs[k], span>>]

ExpectedCases ==
    LET R == RecognizedOf(input)
    IN Tagged(PrimaryCases, CallSite)
       \o Concat([i \in 1..Len(R) |-> Tagged(DirectiveCases(R[i]), R[i].span)])

\* C1: in a successful expansion the rendered functions are, one per case
\* and in this order, the cases of the primary attribute and then the cases
\* of the recognized attributes of the function in source order, a matrix
\* giving all its cases at its own place.
C1_RenderedOrder ==
    Emitted =>
        LET r == output.rendered_test_cases
            e == ExpectedCases
        IN /\ Len(r) = Len(e)
           /\ \A k \in 1..Len(r) : r[k].case = e[k][1] /\ r[k].span = e[k][2]

\* A primary test case and two `case` attributes: three functions, the
\* primary one first.
C1_Witness ==
    /\ Emitted
    /\ macro = "test_case"
    /\ Len(input) = 2
    /\ input[1].path = "case" /\ input[2].path = "case"
    /\ Len(output.rendered_test_cases) = 3
    /\ output.rendered_test_cases[1].span = CallSite
    /\ output.rendered_test_cases[2].span = 1
    /\ output.rendered_test_cases[3].span = 2

\* k1 * ... * kn
RECURSIVE Count(_)
Count(slots) ==
    IF slots = <<>> THEN 1 ELSE Len(Head(slots)) * Count(Tail(slots))

\* The number of combinations of the slots after slot s.
Weight(slots, s) == Count(SubSeq(slots, s + 1, Len(slots)))

\* The j-th combination in lexicographic order, the last slot varying fastest.
LexArgs(slots, j) ==
    [s \in 1..Len(slots) |->
        slots[s][(((j - 1) \div Weight(slots, s)) % Len(slots[s])) + 1]]

CountOf(a) == IF IsTestCase(a) THEN 1 ELSE Count(a.tokens.slots)

PrimaryCount == IF macro = "test_case" THEN 1 ELSE Count(args.slots)

\* The number of cases of the primary attribute and of input[1..i].
RECURSIVE Offset(_)
Offset(i) ==
    IF i = 0 THEN PrimaryCount
    ELSE Offset(i - 1) + (IF Recognized(input[i]) THEN CountOf(input[i]) ELSE 0)

BlockInOrder(slots, span, off) ==
    \A j \in 1..Count(slots) :
        /\ off + j <= Len(test_cases)
        /\ test_cases[off + j][1].args = LexArgs(slots, j)
        /\ test_cases[off + j][2] = span

\* C2: a matrix with candidate counts k1..kn gives exactly k1*...*kn cases,
\* in lexicographic order with the first slot varying slowest and the last
\* fastest, a slot of one candidate giving its value in every case.
C2_MatrixProduct ==
    Emitted =>
        /\ Len(test_cases) = Offset(Len(input))
        /\ macro = "test_matrix" => BlockInOrder(args.slots, CallSite, 0)
        /\ \A i \in 1..Len(input) :
              IsTestMatrix(input[i]) =>
                  BlockInOrder(input[i].tokens.slots, input[i].span, Offset(i - 1))

\* a in {1,2}, b in {1,2,3}: 6 cases, (1,1),(1,2),(1,3),(2,1),(2,2),(2,3).
C2_Witness ==
    /\ Emitted
    /\ macro = "test_matrix"
    /\ args.slots = <<<<1, 2>>, <<1, 2, 3>>>>
    /\ input = <<>>
    /\ [k \in 1..Len(test_cases) |-> test_cases[k][1].args]
         = <<<<1, 1>>, <<1, 2>>, <<1, 3>>, <<2, 1>>, <<2, 2>>, <<2, 3>>>>

Occurrences(s, x) == Cardinality({i \in 1..Len(s) : s[i] = x})

\* C3: after expand_additional_test_case_macros returns Ok, item.attrs holds
\* no attribute with one of the six recognized paths and holds every
\* unrecognized attribute of the initial list exactly once.
C3_RecognizedRemoved ==
    Emitted =>
        /\ \A j \in 1..Len(item.attrs) : ~Recognized(item.attrs[j])
        /\ \A i \in 1..Len(input) :
              ~Recognized(input[i]) => Occurrences(item.attrs, input[i]) = 1
        /\ Len(item.attrs) = Len(UnrecognizedOf(input))

C3_Witness ==
    /\ Emitted
    /\ Len(input) = 3
    /\ IsTestCase(input[1]) /\ ~Recognized(input[2]) /\ IsTestMatrix(input[3])
    /\ item.attrs = <<input[2]>>

\* The position of the first malformed directive in source order, the
\* primary attribute coming first.
FirstMalformedSpan ==
    IF PrimaryMalformed THEN CallSite
    ELSE LET bad == {i \in 1..Len(input) : AttrMalformed(input[i])}
             first == CHOOSE i \in bad : \A h \in bad : i <= h
         IN input[first].span

\* C4: if a recognized directive of the function is malformed, the
\* expansion yields one diagnostic at the position of the first malformed
\* directive in source order and nothing else: no case function, no module.
C4_MalformedAborts ==
    (Done /\ (PrimaryMalformed \/ \E i \in 1..Len(input) : AttrMalformed(input[i]))) =>
        /\ output.kind = "compile_error"
        /\ DOMAIN output = {"kind", "span", "message"}
        /\ output.span = FirstMalformedSpan

\* A well-formed directive, then two malformed ones: the diagnostic is at
\* the second attribute.
C4_Witness ==
    /\ Done
    /\ ~PrimaryMalformed
    /\ Len(input) = 3
    /\ Recognized(input[1]) /\ ~AttrMalformed(input[1])
    /\ AttrMalformed(input[2]) /\ AttrMalformed(input[3])
    /\ output.kind = "compile_error"
    /\ output.span = 2

\* C5 as stated: the emitted template function keeps every attribute that is
\* not a test-case or test-matrix form, whatever its name, and no other.
C5_KeepsAllOthers ==
    Emitted => Elems(output.item.attrs) = Elems(UnrecognizedOf(input))

\* C5, amended: the emitted template function keeps exactly the attributes
\* of the original whose path is the identifier `allow`, each once, behind
\* an added #[allow(unused_attributes)]; every other attribute is dropped.
C5_KeepsOnlyAllow ==
    Emitted =>
        /\ output.item_prefix = <<AllowUnusedAttributes>>
        /\ Elems(output.item.attrs) = {a \in Elems(input) : a.path = "allow"}
        /\ \A a \in Elems(output.item.attrs) : Occurrences(output.item.attrs, a) = 1

C5_Witness ==
    /\ Emitted
    /\ run = "first"
    /\ \E i, j, k \in 1..Len(input) :
          /\ input[i].path = "allow"
          /\ input[j].path = "inline"
          /\ Recognized(input[k])
          /\ output.item.attrs = <<input[i]>>

\* C6: respelling a test-case attribute with another of test_case,
\* test_case::test_case, test_case::case, case (or a test-matrix attribute
\* with the other of test_matrix, test_case::test_matrix), content and
\* position kept, gives the same case descriptors, the same stripped
\* attribute list and the same error; and an attribute with any other path
\* is neither parsed nor removed.
C6_AliasesEquivalent ==
    /\ (Done /\ run = "respelled") =>
          /\ test_cases = prev.test_cases
          /\ output = prev.output
          /\ output.kind = "module" => item = prev.item
    /\ Done =>
          \A i \in 1..Len(input) :
              ~Recognized(input[i]) =>
                  /\ \A k \in 1..Len(test_cases) : test_cases[k][2] # input[i].span
                  /\ Occurrences(item.attrs, input[i]) = 1
                  /\ (output.kind = "compile_error" /\ ~PrimaryMalformed)
                         => output.span # input[i].span

\* `case` respelled test_case::test_case among other attributes, the
\* expansion succeeding with the case of that attribute.
C6_Witness ==
    /\ Emitted
    /\ run = "respelled"
    /\ \E i \in 1..Len(input) :
          /\ input[i].path = "test_case::test_case"
          /\ prev.input[i].path = "case"
          /\ \E k \in 1..Len(test_cases) : test_cases[k][2] = input[i].span
    /\ \E i \in 1..Len(input) : input[i].path = "test_case::matrix"

\* C7: within one generated module no two rendered case functions have the
\* same name.
C7_DistinctNames ==
    Emitted =>
        \A j, k \in 1..Len(output.rendered_test_cases) :
            j # k => output.rendered_test_cases[j].name
                        # output.rendered_test_cases[k].name

\* C8 as stated: expanding the re-annotated emitted template gives a module
\* identical to the first one, template copies and their attributes included.
C8_Identical ==
    (Done /\ run = "reannotated") =>
        /\ output.kind = "module"
        /\ output.mod_name = prev.output.mod_name
        /\ output.rendered_test_cases = prev.output.rendered_test_cases

\* C8, amended: expanding the re-annotated emitted template gives a module
\* of the same name with the same case functions (name, case, position) in
\* the same order, each carrying the attributes of the emitted template
\* (the added #[allow(unused_attributes)] and the retained `allow`
\* attributes) in place of the unrecognized attributes of the original; and
\* the aggregator run on a function without recognized attributes returns
\* no cases and leaves the attribute list as it is.
C8_SameCases ==
    /\ (Done /\ run = "reannotated") =>
          /\ output.kind = "module"
          /\ output.mod_name = prev.output.mod_name
          /\ Len(output.rendered_test_cases) = Len(prev.output.rendered_test_cases)
          /\ \A k \in 1..Len(output.rendered_test_cases) :
                LET r == output.rendered_test_cases[k]
                    q == prev.output.rendered_test_cases[k]
                    emitted == EmittedAttrs(prev.output, Len(prev.input))
                IN /\ r.name = q.name /\ r.case = q.case /\ r.span = q.span
                   /\ Len(r.attrs) = Len(emitted)
                   /\ Elems(r.attrs) = Elems(emitted)
    /\ (Emitted /\ RecognizedOf(input) = <<>>) =>
          /\ Len(test_cases) = PrimaryCount
          /\ \A k \in 1..Len(test_cases) : test_cases[k][2] = CallSite
          /\ item.attrs = input

\* The second expansion of a function that had a retained and a dropped
\* attribute and two recognized ones.
C8_Witness ==
    /\ Emitted
    /\ run = "reannotated"
    /\ Len(prev.input) = 3
    /\ \E i \in 1..3 : prev.input[i].path = "allow"
    /\ \E i \in 1..3 : prev.input[i].path = "inline"
    /\ \E i \in 1..3 : Recognized(prev.input[i])
    /\ Len(output.rendered_test_cases) >= 2
    /\ Elems(output.rendered_test_cases[1].attrs)
         # Elems(prev.output.rendered_test_cases[1].attrs)

\* C9: after expand_additional_test_case_macros returns Ok, item.attrs is
\* the initial list with the recognized attributes filtered out, the others
\* in their original relative order, and every rendered case function
\* carries this list.
C9_OrderKept ==
    Emitted =>
        /\ item.attrs = UnrecognizedOf(input)
        /\ \A k \in 1..Len(output.rendered_test_cases) :
              output.rendered_test_cases[k].attrs = UnrecognizedOf(input)

\* The cases in test_cases that carry the span sp.
WithSpan(sp) == {k \in 1..Len(test_cases) : test_cases[k][2] = sp}

\* C10: every case handed to the renderer carries the position of the
\* directive it comes from: the call site for the cases of the primary
\* attribute, the attribute's own span for a further test case, and the
\* matrix attribute's span for every case of a further matrix.
C10_Provenance ==
    Emitted =>
        /\ \A k \in 1..Len(output.rendered_test_cases) :
              output.rendered_test_cases[k].span = test_cases[k][2]
        /\ \A k \in WithSpan(CallSite) : test_cases[k][1] \in Elems(PrimaryCases)
        /\ Cardinality(WithSpan(CallSite)) = PrimaryCount
        /\ \A i \in 1..Len(input) :
              Recognized(input[i]) =>
                  /\ Cardinality(WithSpan(input[i].span)) = CountOf(input[i])
                  /\ \A k \in WithSpan(input[i].span) :
                        test_cases[k][1] \in Elems(DirectiveCases(input[i]))
        /\ \A k \in 1..Len(test_cases) :
              \/ test_cases[k][2] = CallSite
              \/ \E i \in 1..Len(input) :
                    Recognized(input[i]) /\ input[i].span = test_cases[k][2]

\* A test case at 1 and a matrix of two cases at 2 under a primary test case.
C10_Witness ==
    /\ Emitted
    /\ macro = "test_case"
    /\ Len(input) = 2
    /\ IsTestCase(input[1]) /\ IsTestMatrix(input[2])
    /\ [k \in 1..Len(test_cases) |-> test_cases[k][2]] = <<CallSite, 1, 2, 2>>

====
